---- MODULE Spec2Model ----
(***************************************************************************)
(* The snake game of App (src/unnamed/part_002) as a state machine.  The    *)
(* state variables of the component hold the values of the last render;    *)
(* a setter called by a handler queues an update.  A click or a key press  *)
(* is rendered before anything else runs, together with every update       *)
(* queued before it, and the effects of that render run with it.  A timer  *)
(* callback, a settled promise and an effect only queue their updates:     *)
(* React renders them in a later task, and runs the effects of that render *)
(* in a task after it.  Until the effects have run, the intervals and the  *)
(* keydown listener that the effects of the render before registered stay  *)
(* in place: they can fire, and they act on the values of that earlier     *)
(* render.  The render of a click or key press applies the updates in the  *)
(* order they were queued, the last value set winning: the state React     *)
(* reaches once every lane of its queue is rendered.                       *)
(***************************************************************************)
EXTENDS Integers, Sequences, FiniteSets

(* ---------------------------------------------------------------------- *)
(* Bounds of the model                                                     *)
(* ---------------------------------------------------------------------- *)

\* gameTick calls explored per round
MaxTicks == 11

\* direction changes explored per round
MaxTurns == 2

\* Math.random() is drawn from the cells at most this many moves from (15,15)
DrawRadius == 1

\* callbacks explored per round that run before the updates queued by an
\* earlier callback are rendered, or before the effects of the last render
\* have run
MaxStale == 1

\* gameTick calls explored per round by SpecStale
LongTicks == 13

\* callbacks explored per round by SpecStale that run before the updates
\* queued by an earlier callback are rendered, or before the effects of the
\* last render have run
LongStale == 3

\* generateContent calls explored in flight at one time
MaxFetches == 1

\* gameTick calls explored per round while the last input is recorded and
\* the snake has turned, or while a fetch of the fact is not settled and
\* rendered
LogTicks == 2

\* direction changes per round explored by SpecSession
SessionTurns == 1

(* ---------------------------------------------------------------------- *)
(* Types and constants (types.ts, constants.ts)                            *)
(* ---------------------------------------------------------------------- *)

Direction == {"UP", "DOWN", "LEFT", "RIGHT"}

GameState == {"HOME", "IDLE", "PLAYING", "GAME_OVER", "PAUSED", "COUNTDOWN"}

Difficulty == {"EASY", "MEDIUM", "HARD"}

GRID_SIZE == 20

INITIAL_SNAKE_POSITION ==
    << [x |-> 10, y |-> 10], [x |-> 9, y |-> 10], [x |-> 8, y |-> 10] >>

INITIAL_FOOD_POSITION == [x |-> 15, y |-> 15]

\* the countdown sequence of the countdown effect
sequence == << "3", "2", "1", "Go!" >>

\* the fallback fact of fetchSnakeFact's catch block
FALLBACK_FACT == "Snakes are fascinating creatures that can be found all over the world!"

\* response.text of a successful generateContent call
ResponseTexts == {"A fun fact."}

\* localStorage.getItem returns null when the key was never written
NoItem == "null"

\* e.key of the keyboard events explored (" " is the space bar, "Enter" any
\* other key)
Keys == {"ArrowUp", "ArrowDown", "ArrowLeft", "ArrowRight", " ", "Enter"}

\* e.code of an event: the physical key, which is the space bar or another key
Codes == {"Space", "Other"}

\* the keyboard events explored: each key from its own physical key, and
\* the events a browser sends for the space bar under another e.key
KeyboardEvents ==
    { [key |-> k, code |-> IF k = " " THEN "Space" ELSE "Other"] : k \in Keys }
      \cup { [key |-> k, code |-> "Space"] : k \in {"Enter", "ArrowUp"} }

VARIABLES
    snake,          \* Point[]: head first
    food,           \* Point
    direction,      \* Direction
    score,          \* number
    highScore,      \* number
    gameState,      \* GameState
    difficulty,     \* Difficulty
    countdown,      \* string shown by the COUNTDOWN overlay
    snakeFact,      \* string
    isFactLoading,  \* boolean
    step,           \* the local `step` of the countdown effect's closure
    fetchPending,   \* generateContent calls awaiting their result
    stored,         \* localStorage's 'snakeHighScore' item
    ticks,          \* gameTick calls of this round (bounded by TickBudget)
    turns,          \* direction changes of this round (bounded by MaxTurns)
    intervals,      \* the active movement intervals, each the closure of its gameTick
    timers,         \* the number of active countdown intervals
    listener,       \* the registered keydown listener: the closure of its handleKeyDown
    pending,        \* the updates queued by setters and not yet rendered
    stale,          \* callbacks of this round run while updates were pending (bounded by StaleBudget)
    mounted,        \* whether App is mounted (an uncaught error unmounts it)
    storageAvailable, \* whether localStorage can be read and written
    effectDeps,     \* the values the effects depend on, of the render whose effects ran last
    event,          \* the last input, where the specification records it
    code            \* e.code of the last input when it is a keyboard event

vars == << effectDeps, snake, food, direction, score, highScore, gameState,
           difficulty, countdown, snakeFact, isFactLoading, step, fetchPending,
           stored, ticks, turns, intervals, timers, listener, pending, stale,
           mounted, storageAvailable, event, code >>

(* ---------------------------------------------------------------------- *)
(* Pure helpers                                                            *)
(* ---------------------------------------------------------------------- *)

Point(px, py) == [x |-> px, y |-> py]

\* the number of moves between two cells
Distance(p, q) ==
    (IF p.x >= q.x THEN p.x - q.x ELSE q.x - p.x)
      + (IF p.y >= q.y THEN p.y - q.y ELSE q.y - p.y)

\* currentSnake.some(seg => seg.x === p.x && seg.y === p.y)
Occupies(currentSnake, p) ==
    \E i \in 1..Len(currentSnake) :
        currentSnake[i].x = p.x /\ currentSnake[i].y = p.y

\* number.toString(): the decimal digits of n, most significant first
RECURSIVE toString(_)
toString(n) ==
    IF n < 10 THEN << n >> ELSE toString(n \div 10) \o << n % 10 >>

\* parseInt(s, 10) of a digit string
RECURSIVE parseInt(_)
parseInt(s) ==
    IF Len(s) = 0 THEN 0
    ELSE 10 * parseInt(SubSeq(s, 1, Len(s) - 1)) + s[Len(s)]

\* the initializer of the highScore state
InitialHighScore(savedScore) ==
    IF savedScore # NoItem /\ savedScore # << >> THEN parseInt(savedScore) ELSE 0

\* MoveHead that moves two cells to the right
MoveHeadLeap(head, dir) ==
    CASE dir = "UP"    -> [head EXCEPT !.y = head.y - 1]
      [] dir = "DOWN"  -> [head EXCEPT !.y = head.y + 1]
      [] dir = "LEFT"  -> [head EXCEPT !.x = head.x - 1]
      [] dir = "RIGHT" -> [head EXCEPT !.x = head.x + 2]

\* the head moved one cell: the switch on direction in gameTick
MoveHead(head, dir) ==
    CASE dir = "UP"    -> [head EXCEPT !.y = head.y - 1]
      [] dir = "DOWN"  -> [head EXCEPT !.y = head.y + 1]
      [] dir = "LEFT"  -> [head EXCEPT !.x = head.x - 1]
      [] dir = "RIGHT" -> [head EXCEPT !.x = head.x + 1]

\* WallCollision that lets the head reach column GRID_SIZE
WallCollisionOffByOne(head) ==
    head.x < 0 \/ head.x > GRID_SIZE \/ head.y < 0 \/ head.y >= GRID_SIZE

\* gameTick's wall test
WallCollision(head) ==
    head.x < 0 \/ head.x >= GRID_SIZE \/ head.y < 0 \/ head.y >= GRID_SIZE

\* SelfCollision with segment.y compared to head.x
SelfCollisionTypo(newSnake, head) ==
    \E i \in 1..Len(newSnake) :
        newSnake[i].x = head.x /\ newSnake[i].y = head.x

\* gameTick's loop over newSnake, which is the snake before the move
SelfCollision(newSnake, head) ==
    \E i \in 1..Len(newSnake) :
        newSnake[i].x = head.x /\ newSnake[i].y = head.y

\* FoodCollision that compares the row alone
FoodCollisionRow(head, f) == head.y = f.y

\* gameTick's food test
FoodCollision(head, f) == head.x = f.x /\ head.y = f.y

\* the points Math.floor(Math.random() * GRID_SIZE) is drawn from
Grid == { Point(px, py) : px \in 0..(GRID_SIZE - 1), py \in 0..(GRID_SIZE - 1) }

\* the draws explored by Spec: the points within DrawRadius moves of (15,15)
RandomDraws ==
    { p \in Grid : Distance(p, INITIAL_FOOD_POSITION) <= DrawRadius }

\* generateFood without the rejection of occupied cells
generateFoodNoRejection(draws, currentSnake) == draws

\* generateFood: the positions the rejection loop can end with, when
\* Math.random yields the points of `draws`; with none of them free the loop
\* does not end
generateFood(draws, currentSnake) ==
    { newFood \in draws : ~Occupies(currentSnake, newFood) }

\* NewDirection without the guards of the horizontal keys
NewDirectionUnguarded(key, dir) ==
    CASE key = "ArrowUp"    -> IF dir # "DOWN"  THEN "UP"    ELSE "null"
      [] key = "ArrowDown"  -> IF dir # "UP"    THEN "DOWN"  ELSE "null"
      [] key = "ArrowLeft"  -> "LEFT"
      [] key = "ArrowRight" -> "RIGHT"
      [] OTHER              -> "null"

\* the switch on e.key in handleKeyDown: the new direction, or "null"
NewDirection(key, dir) ==
    CASE key = "ArrowUp"    -> IF dir # "DOWN"  THEN "UP"    ELSE "null"
      [] key = "ArrowDown"  -> IF dir # "UP"    THEN "DOWN"  ELSE "null"
      [] key = "ArrowLeft"  -> IF dir # "RIGHT" THEN "LEFT"  ELSE "null"
      [] key = "ArrowRight" -> IF dir # "LEFT"  THEN "RIGHT" ELSE "null"
      [] OTHER              -> "null"

\* a handleKeyDown that tests for PLAYING or COUNTDOWN
AcceptsArrowsCountdown(gs) == gs \in {"PLAYING", "COUNTDOWN"}

\* handleKeyDown's test before the switch: arrow keys count only while PLAYING
AcceptsArrows(gs) == gs = "PLAYING"

\* the game state after the space bar
SpaceToggle(gs) ==
    IF gs = "PLAYING" THEN "PAUSED"
    ELSE IF gs = "PAUSED" THEN "PLAYING"
    ELSE gs

(* ---------------------------------------------------------------------- *)
(* Queued updates                                                          *)
(* ---------------------------------------------------------------------- *)

\* nothing queued: per state, the value of the last queued call of its
\* setter (none: the empty sequence), and for score the calls of
\* setScore(prevScore => prevScore + 1) queued after that
NoUpdates ==
    [snake |-> << >>, food |-> << >>, direction |-> << >>, score |-> << >>,
     increments |-> 0, highScore |-> << >>, gameState |-> << >>,
     difficulty |-> << >>, countdown |-> << >>, snakeFact |-> << >>,
     isFactLoading |-> << >>]

\* the value a render gives a state: the last value queued for it, or the
\* value it had
Latest(update, current) == IF update = << >> THEN current ELSE update[1]

\* a high-score effect without its comparison
HighScoreEffectAlways(from, to) ==
    << to.score, to.highScore >> # << from.score, from.highScore >>

\* the high-score effect, with dependencies score and highScore, after the
\* render `to` that follows the render `from`: whether it runs
\* setHighScore(score) and localStorage.setItem, which it does when the
\* rendered score exceeds the rendered high score
HighScoreEffect(from, to) ==
    /\ << to.score, to.highScore >> # << from.score, from.highScore >>
    /\ to.score > to.highScore

(* ---------------------------------------------------------------------- *)
(* The interval effects                                                    *)
(* ---------------------------------------------------------------------- *)

\* what a gameTick callback closes over: the snake, direction and food of the
\* render that created it
Closure(s, d, f) == [snake |-> s, direction |-> d, food |-> f]

\* a movement effect that returns no cleanup
ClearIntervalMissing(ids, wasPlaying) == ids

\* the cleanup of the movement effect: clearInterval of the interval its last
\* run created, which exists when that run saw PLAYING
ClearInterval(ids, wasPlaying) ==
    IF wasPlaying /\ Len(ids) > 0 THEN SubSeq(ids, 1, Len(ids) - 1) ELSE ids

\* the movement effect, with dependencies gameState, gameTick (that is snake,
\* direction, food) and difficulty: the intervals active once it has run for
\* the render `to`, its cleanup being that of its run for the render `from`
MovementEffect(ids, from, to) ==
    IF << to.gameState, to.snake, to.direction, to.food, to.difficulty >>
         = << from.gameState, from.snake, from.direction, from.food,
              from.difficulty >>
    THEN ids
    ELSE LET cleared == ClearInterval(ids, from.gameState = "PLAYING")
         IN  IF to.gameState = "PLAYING"
             THEN Append(cleared, Closure(to.snake, to.direction, to.food))
             ELSE cleared

\* the countdown effect, with dependency gameState: the number of countdown
\* intervals active once it has run; its cleanup clears the interval of the
\* last run unless the callback has cleared it already
CountdownEffect(n, from, to) ==
    IF to.gameState = from.gameState THEN n
    ELSE (IF from.gameState = "COUNTDOWN" /\ n > 0 THEN n - 1 ELSE n)
           + (IF to.gameState = "COUNTDOWN" THEN 1 ELSE 0)

\* `let step = 0` of a run of the countdown effect that starts an interval
CountdownStart(s, from, to) ==
    IF to.gameState # from.gameState /\ to.gameState = "COUNTDOWN" THEN 0 ELSE s

\* what a handleKeyDown callback closes over: the direction and gameState of
\* the render that created it
KeyClosure(d, gs) == [direction |-> d, gameState |-> gs]

\* the keydown effect, with dependency handleKeyDown (that is direction and
\* gameState): the listener registered once it has run
KeyDownEffect(registered, from, to) ==
    IF << to.direction, to.gameState >> = << from.direction, from.gameState >>
    THEN registered
    ELSE KeyClosure(to.direction, to.gameState)

(* ---------------------------------------------------------------------- *)
(* The fact fetch of the HOME screen                                       *)
(* ---------------------------------------------------------------------- *)

\* what the synchronous part of fetchSnakeFact can do: reach the await, or
\* throw before it (the GoogleGenAI constructor), which runs catch and finally
FetchStarts == {"awaits", "throws"}

\* how the awaited generateContent call can settle
FetchOutcomes == {"resolved", "rejected"}

\* fetchSnakeFact up to its await: the updates it queues. It runs inside an
\* effect, so React renders them in a later task
fetchSnakeFact(start) ==
    IF start = "awaits"
    THEN [NoUpdates EXCEPT !.isFactLoading = << TRUE >>]
    ELSE [NoUpdates EXCEPT !.snakeFact = << FALLBACK_FACT >>,
                           !.isFactLoading = << FALSE >>]

\* the effect with dependency gameState that calls fetchSnakeFact when HOME
\* is entered: whether it calls it after the render `to`
FetchEffect(from, to) ==
    to.gameState # from.gameState /\ to.gameState = "HOME"

(* ---------------------------------------------------------------------- *)
(* Rendering                                                               *)
(* ---------------------------------------------------------------------- *)

\* the rendered values of the states
State ==
    [snake |-> snake, food |-> food, direction |-> direction,
     score |-> score, highScore |-> highScore, gameState |-> gameState,
     difficulty |-> difficulty, countdown |-> countdown,
     snakeFact |-> snakeFact, isFactLoading |-> isFactLoading]

\* the values of a render that the dependency arrays of the effects name
Dependencies(values) ==
    [gameState |-> values.gameState, snake |-> values.snake,
     direction |-> values.direction, food |-> values.food,
     difficulty |-> values.difficulty, score |-> values.score,
     highScore |-> values.highScore]

\* what the effects and the callbacks they register act on
Registered ==
    [listener |-> listener, intervals |-> intervals, timers |-> timers,
     step |-> step, fetchPending |-> fetchPending, stored |-> stored,
     mounted |-> mounted, pending |-> pending]

\* the updates `queue` with the updates `later` queued behind them
Behind(queue, later) ==
    [snake |-> IF later.snake = << >> THEN queue.snake ELSE later.snake,
     food |-> IF later.food = << >> THEN queue.food ELSE later.food,
     direction |-> IF later.direction = << >> THEN queue.direction
                   ELSE later.direction,
     score |-> IF later.score = << >> THEN queue.score ELSE later.score,
     increments |-> IF later.score = << >>
                    THEN queue.increments + later.increments
                    ELSE later.increments,
     highScore |-> IF later.highScore = << >> THEN queue.highScore
                   ELSE later.highScore,
     gameState |-> IF later.gameState = << >> THEN queue.gameState
                   ELSE later.gameState,
     difficulty |-> IF later.difficulty = << >> THEN queue.difficulty
                    ELSE later.difficulty,
     countdown |-> IF later.countdown = << >> THEN queue.countdown
                   ELSE later.countdown,
     snakeFact |-> IF later.snakeFact = << >> THEN queue.snakeFact
                   ELSE later.snakeFact,
     isFactLoading |-> IF later.isFactLoading = << >> THEN queue.isFactLoading
                       ELSE later.isFactLoading]

\* React renders the queued updates `queue` on the rendered `values`: each
\* state takes the last value queued for it
Rerender(queue, values) ==
    [snake |-> Latest(queue.snake, values.snake),
     food |-> Latest(queue.food, values.food),
     direction |-> Latest(queue.direction, values.direction),
     score |-> Latest(queue.score, values.score) + queue.increments,
     highScore |-> Latest(queue.highScore, values.highScore),
     gameState |-> Latest(queue.gameState, values.gameState),
     difficulty |-> Latest(queue.difficulty, values.difficulty),
     countdown |-> Latest(queue.countdown, values.countdown),
     snakeFact |-> Latest(queue.snakeFact, values.snakeFact),
     isFactLoading |-> Latest(queue.isFactLoading, values.isFactLoading)]

\* the effects of the render `to`, which follows the render `from`, run on
\* what is registered: the fetch on HOME (fetchSnakeFact beginning as
\* `start`), the keydown listener, the movement interval, the high score
\* and the countdown interval. They queue their updates;
\* localStorage.setItem throws when the storage is unavailable, and an
\* error thrown by an effect unmounts App, which clears its intervals
RunEffects(from, to, registered, start) ==
    LET fetches == FetchEffect(from, to)
        saves == HighScoreEffect(from, to)
        survives == saves => storageAvailable
        fetched == IF fetches
                   THEN Behind(registered.pending, fetchSnakeFact(start))
                   ELSE registered.pending
    IN  [listener |-> KeyDownEffect(registered.listener, from, to),
         intervals |-> IF survives
                       THEN MovementEffect(registered.intervals, from, to)
                       ELSE << >>,
         timers |-> IF survives
                    THEN CountdownEffect(registered.timers, from, to)
                    ELSE 0,
         step |-> CountdownStart(registered.step, from, to),
         fetchPending |-> IF fetches /\ start = "awaits"
                          THEN registered.fetchPending + 1
                          ELSE registered.fetchPending,
         stored |-> IF saves /\ storageAvailable THEN toString(to.score)
                    ELSE registered.stored,
         mounted |-> survives,
         pending |-> IF saves
                     THEN [fetched EXCEPT !.highScore = << to.score >>]
                     ELSE fetched]

\* React has rendered every update queued
Rendered == pending = NoUpdates

\* the effects of the last render have run
EffectsRun == effectDeps = Dependencies(State)

\* React has nothing left to do
Settled == Rendered /\ EffectsRun

\* the effects of the last render run now if they have not run yet: React
\* runs them before it renders again
FlushEffects(registered, start) ==
    IF EffectsRun THEN registered
    ELSE RunEffects(effectDeps, Dependencies(State), registered, start)

\* the step ends with `values` rendered and `registered` in place; at most
\* MaxFetches calls of generateContent are explored in flight
Becomes(values, registered) ==
    /\ snake' = values.snake
    /\ food' = values.food
    /\ direction' = values.direction
    /\ score' = values.score
    /\ highScore' = values.highScore
    /\ gameState' = values.gameState
    /\ difficulty' = values.difficulty
    /\ countdown' = values.countdown
    /\ snakeFact' = values.snakeFact
    /\ isFactLoading' = values.isFactLoading
    /\ listener' = registered.listener
    /\ intervals' = registered.intervals
    /\ timers' = registered.timers
    /\ step' = registered.step
    /\ fetchPending' = registered.fetchPending
    /\ fetchPending' <= MaxFetches
    /\ stored' = registered.stored
    /\ mounted' = registered.mounted
    /\ pending' = registered.pending

\* how fetchSnakeFact can begin in the effects of the render `to`: it is
\* called when HOME is entered only
Starts(from, to) == IF FetchEffect(from, to) THEN FetchStarts ELSE {"awaits"}

\* a handler of a click or a key press has queued its updates, `queue` being
\* all that is queued then: React runs the effects of the last render if
\* they have not run, renders the queue, and runs the effects of this
\* render, all before the handler's task ends. The updates the effects
\* queue are pending after it
Commit(queue) ==
    \E first \in Starts(effectDeps, Dependencies(State)) :
    \E flushed \in
         { FlushEffects([Registered EXCEPT !.pending = queue], first) } :
      IF flushed.mounted
      THEN \E values \in { Rerender(flushed.pending, State) } :
           \E second \in Starts(Dependencies(State), Dependencies(values)) :
           \E registered \in
                { RunEffects(Dependencies(State), Dependencies(values),
                             [flushed EXCEPT !.pending = NoUpdates], second) } :
             /\ Becomes(values, registered)
             /\ effectDeps' = Dependencies(values)
      ELSE /\ Becomes(State, flushed)
           /\ effectDeps' = Dependencies(State)

\* a handler that calls no setter: nothing is rendered
NoRender ==
    UNCHANGED << snake, food, direction, score, highScore, gameState,
                 difficulty, countdown, snakeFact, isFactLoading, step,
                 fetchPending, stored, intervals, timers, listener, pending,
                 mounted, effectDeps >>

\* a callback that is not a user event returns to the event loop with its
\* updates queued: the states, the intervals and the listener stay as they
\* are
Queue(queue) ==
    /\ pending' = queue
    /\ UNCHANGED << snake, food, direction, score, highScore, gameState,
                    difficulty, countdown, snakeFact, isFactLoading, stored,
                    intervals, listener, mounted, effectDeps >>

\* React's scheduled render task: it renders the updates that timer
\* callbacks, settled promises and effects have queued, after the effects of
\* the render before it if they have not run. The effects of this render
\* run in a later task: until then the intervals and the listener of the
\* render before stay registered
Render ==
    /\ mounted
    /\ pending # NoUpdates
    /\ \E start \in Starts(effectDeps, Dependencies(State)) :
       \E flushed \in { FlushEffects(Registered, start) } :
         IF flushed.mounted
         THEN Becomes(Rerender(flushed.pending, State),
                      [flushed EXCEPT !.pending = NoUpdates])
         ELSE Becomes(State, flushed)
    /\ effectDeps' = Dependencies(State)
    /\ UNCHANGED << ticks, turns, stale, storageAvailable >>

\* React's scheduled task that runs the effects of the last render
Effects ==
    /\ mounted
    /\ ~EffectsRun
    /\ \E start \in Starts(effectDeps, Dependencies(State)) :
       \E registered \in
            { RunEffects(effectDeps, Dependencies(State), Registered, start) } :
         Becomes(State, registered)
    /\ effectDeps' = Dependencies(State)
    /\ UNCHANGED << ticks, turns, stale, storageAvailable >>

\* a FetchSettles whose loading flag is cleared after a response only
FetchSettlesNoFinally(outcome) ==
    /\ mounted
    /\ fetchPending > 0
    /\ fetchPending' = fetchPending - 1
    /\ IF outcome = "resolved"
       THEN \E text \in ResponseTexts :
              Queue([pending EXCEPT !.snakeFact = << text >>,
                                    !.isFactLoading = << FALSE >>])
       ELSE Queue([pending EXCEPT !.snakeFact = << FALLBACK_FACT >>])
    /\ UNCHANGED << step, timers, ticks, turns, stale, storageAvailable >>

\* the await settles: setSnakeFact of the response's text, or of the catch
\* block's fallback; finally, setIsFactLoading(false)
FetchSettles(outcome) ==
    /\ mounted
    /\ fetchPending > 0
    /\ fetchPending' = fetchPending - 1
    /\ IF outcome = "resolved"
       THEN \E text \in ResponseTexts :
              Queue([pending EXCEPT !.snakeFact = << text >>,
                                    !.isFactLoading = << FALSE >>])
       ELSE Queue([pending EXCEPT !.snakeFact = << FALLBACK_FACT >>,
                                  !.isFactLoading = << FALSE >>])
    /\ UNCHANGED << step, timers, ticks, turns, stale, storageAvailable >>

(* ---------------------------------------------------------------------- *)
(* Buttons                                                                 *)
(* ---------------------------------------------------------------------- *)

\* the Play Game button of the HOME screen, disabled while the rendered
\* isFactLoading is true
PlayGame ==
    /\ mounted
    /\ gameState = "HOME"
    /\ ~isFactLoading
    /\ Commit([pending EXCEPT !.gameState = << "IDLE" >>])
    /\ UNCHANGED << ticks, turns, stale, storageAvailable >>

\* the Back button of the IDLE overlay: setGameState(GameState.HOME)
Back ==
    /\ mounted
    /\ gameState = "IDLE"
    /\ Commit([pending EXCEPT !.gameState = << "HOME" >>])
    /\ UNCHANGED << ticks, turns, stale, storageAvailable >>

\* a startGame that leaves out setDifficulty
startGameKeepsDifficulty(selectedDifficulty) ==
    /\ mounted
    /\ gameState = "IDLE"
    /\ Commit([pending EXCEPT !.snake = << INITIAL_SNAKE_POSITION >>,
                              !.food = << INITIAL_FOOD_POSITION >>,
                              !.direction = << "RIGHT" >>,
                              !.score = << 0 >>,
                              !.increments = 0,
                              !.countdown = << "3" >>,
                              !.gameState = << "COUNTDOWN" >>])
    /\ ticks' = 0
    /\ turns' = 0
    /\ stale' = 0
    /\ UNCHANGED storageAvailable

\* the Easy, Medium and Hard buttons of the IDLE overlay
startGame(selectedDifficulty) ==
    /\ mounted
    /\ gameState = "IDLE"
    /\ Commit([pending EXCEPT !.difficulty = << selectedDifficulty >>,
                              !.snake = << INITIAL_SNAKE_POSITION >>,
                              !.food = << INITIAL_FOOD_POSITION >>,
                              !.direction = << "RIGHT" >>,
                              !.score = << 0 >>,
                              !.increments = 0,
                              !.countdown = << "3" >>,
                              !.gameState = << "COUNTDOWN" >>])
    /\ ticks' = 0
    /\ turns' = 0
    /\ stale' = 0
    /\ UNCHANGED storageAvailable

\* a resetGame that leaves out setDirection
resetGameKeepsDirection ==
    /\ mounted
    /\ gameState = "GAME_OVER"
    /\ Commit([pending EXCEPT !.snake = << INITIAL_SNAKE_POSITION >>,
                              !.food = << INITIAL_FOOD_POSITION >>,
                              !.score = << 0 >>,
                              !.increments = 0,
                              !.gameState = << "IDLE" >>])
    /\ UNCHANGED << ticks, turns, stale, storageAvailable >>

\* the Play Again button of the GAME_OVER overlay
resetGame ==
    /\ mounted
    /\ gameState = "GAME_OVER"
    /\ Commit([pending EXCEPT !.snake = << INITIAL_SNAKE_POSITION >>,
                              !.food = << INITIAL_FOOD_POSITION >>,
                              !.direction = << "RIGHT" >>,
                              !.score = << 0 >>,
                              !.increments = 0,
                              !.gameState = << "IDLE" >>])
    /\ UNCHANGED << ticks, turns, stale, storageAvailable >>

\* a resumeGame that goes through the countdown again
resumeGameWithCountdown ==
    /\ mounted
    /\ gameState = "PAUSED"
    /\ Commit([pending EXCEPT !.gameState = << "COUNTDOWN" >>])
    /\ UNCHANGED << ticks, turns, stale, storageAvailable >>

\* the Resume button of the PAUSED overlay
resumeGame ==
    /\ mounted
    /\ gameState = "PAUSED"
    /\ Commit([pending EXCEPT !.gameState = << "PLAYING" >>])
    /\ UNCHANGED << ticks, turns, stale, storageAvailable >>

(* ---------------------------------------------------------------------- *)
(* Timers                                                                  *)
(* ---------------------------------------------------------------------- *)

\* a timer callback runs before the updates of an earlier callback are
\* rendered, or before the effects of the last render have run: explored
\* LongStale times per round at most
Stale ==
    /\ stale' = IF pending # NoUpdates \/ ~EffectsRun THEN stale + 1 ELSE stale
    /\ stale' <= LongStale

\* the test of the countdown callback: another value of the sequence is shown
CountdownContinues(s) == s < Len(sequence)

\* one firing of a countdown interval: the callback counts its step up and
\* queues the next value, or on the last step clears its interval and queues
\* PLAYING
countdownTimer ==
    /\ mounted
    /\ timers > 0
    /\ Stale
    /\ step' = step + 1
    /\ IF CountdownContinues(step')
       THEN /\ Queue([pending EXCEPT !.countdown = << sequence[step' + 1] >>])
            /\ UNCHANGED timers
       ELSE /\ Queue([pending EXCEPT !.gameState = << "PLAYING" >>])
            /\ timers' = timers - 1
    /\ UNCHANGED << fetchPending, ticks, turns, storageAvailable >>

\* a gameTick that commits the moved snake before it tests the collisions
gameTickCommitsFirst(maxTicks, draws) ==
    /\ mounted
    /\ ticks < maxTicks
    /\ ticks' = ticks + 1
    /\ Stale
    /\ \E id \in 1..Len(intervals) :
         LET newSnake == intervals[id].snake
             head == MoveHead(newSnake[1], intervals[id].direction)
             moved == << head >> \o SubSeq(newSnake, 1, Len(newSnake) - 1)
         IN  IF WallCollision(head) \/ SelfCollision(newSnake, head)
             THEN Queue([pending EXCEPT !.snake = << moved >>,
                                        !.gameState = << "GAME_OVER" >>])
             ELSE IF FoodCollision(head, intervals[id].food)
             THEN \E newFood \in generateFood(draws, << head >> \o newSnake) :
                    Queue([pending EXCEPT !.increments = @ + 1,
                                          !.food = << newFood >>,
                                          !.snake = << << head >> \o newSnake >>])
             ELSE Queue([pending EXCEPT !.snake = << moved >>])
    /\ UNCHANGED << step, fetchPending, timers, turns, storageAvailable >>

\* one firing of a movement interval: gameTick on the snake, direction and
\* food its callback closes over, queueing its updates; for at most maxTicks
\* ticks of a round and with the random points of `draws`
gameTickWithin(maxTicks, draws) ==
    /\ mounted
    /\ ticks < maxTicks
    /\ ticks' = ticks + 1
    /\ Stale
    /\ \E id \in 1..Len(intervals) :
         LET newSnake == intervals[id].snake
             head == MoveHead(newSnake[1], intervals[id].direction)
             moved == << head >> \o SubSeq(newSnake, 1, Len(newSnake) - 1)
         IN  IF WallCollision(head) \/ SelfCollision(newSnake, head)
             THEN Queue([pending EXCEPT !.gameState = << "GAME_OVER" >>])
             ELSE IF FoodCollision(head, intervals[id].food)
             THEN \E newFood \in generateFood(draws, << head >> \o newSnake) :
                    Queue([pending EXCEPT !.increments = @ + 1,
                                          !.food = << newFood >>,
                                          !.snake = << << head >> \o newSnake >>])
             ELSE Queue([pending EXCEPT !.snake = << moved >>])
    /\ UNCHANGED << step, fetchPending, timers, turns, storageAvailable >>

\* the ticks of a round that are explored: LongTicks at most on the default
\* difficulty once the fetch of the fact has failed and the fallback is
\* rendered, and LogTicks otherwise (gameTick reads neither the difficulty
\* nor the fact)
TickBudget ==
    IF \/ fetchPending > 0 \/ isFactLoading \/ pending.isFactLoading # << >>
       \/ difficulty # "MEDIUM"
       \/ snakeFact # FALLBACK_FACT
    THEN LogTicks
    ELSE LongTicks

gameTick == gameTickWithin(TickBudget, RandomDraws)

(* ---------------------------------------------------------------------- *)
(* Keyboard                                                                *)
(* ---------------------------------------------------------------------- *)

\* handleKeyDown's first test: the event is the space bar by its character
\* or by its physical key
IsSpace(e) == e.key = " " \/ e.code = "Space"

\* the keydown listener on window: handleKeyDown on the direction and
\* gameState it closes over, for at most maxTurns direction changes of a
\* round; a key press that calls a setter is rendered at once
handleKeyDownWithin(e, maxTurns) ==
    /\ mounted
    /\ IF IsSpace(e)
       THEN /\ IF SpaceToggle(listener.gameState) # listener.gameState
               THEN Commit([pending EXCEPT
                              !.gameState = << SpaceToggle(listener.gameState) >>])
               ELSE NoRender
            /\ UNCHANGED turns
       ELSE IF ~AcceptsArrows(listener.gameState)
       THEN NoRender /\ UNCHANGED turns
       ELSE LET newDirection == NewDirection(e.key, listener.direction)
            IN  IF newDirection # "null"
                THEN /\ Commit([pending EXCEPT !.direction = << newDirection >>])
                     /\ turns' = IF newDirection # direction THEN turns + 1 ELSE turns
                     /\ turns' <= maxTurns
                ELSE NoRender /\ UNCHANGED turns
    /\ UNCHANGED << ticks, stale, storageAvailable >>

handleKeyDown(e) == handleKeyDownWithin(e, MaxTurns)

(* ---------------------------------------------------------------------- *)
(* The program                                                             *)
(* ---------------------------------------------------------------------- *)

\* the state once App is mounted with `savedItem` in localStorage: the
\* useState initial values rendered, and the effects of the first render run,
\* with the updates of the HOME effect's fetch queued; localStorage.getItem
\* throws when the storage is unavailable, and App does not mount
Mounted(savedItem, available) ==
    /\ snake = INITIAL_SNAKE_POSITION
    /\ food = INITIAL_FOOD_POSITION
    /\ direction = "RIGHT"
    /\ score = 0
    /\ stored = savedItem
    /\ storageAvailable = available
    /\ mounted = available
    /\ highScore = InitialHighScore(stored)
    /\ gameState = "HOME"
    /\ difficulty = "MEDIUM"
    /\ countdown = "3"
    /\ step = 0
    /\ isFactLoading = TRUE
    /\ snakeFact = ""
    /\ IF available
       THEN \E start \in FetchStarts :
              /\ pending = fetchSnakeFact(start)
              /\ fetchPending = IF start = "awaits" THEN 1 ELSE 0
       ELSE pending = NoUpdates /\ fetchPending = 0
    /\ intervals = << >>
    /\ timers = 0
    /\ listener = KeyClosure(direction, gameState)
    /\ effectDeps = Dependencies(State)
    /\ ticks = 0
    /\ turns = 0
    /\ stale = 0
    /\ event = "mount"
    /\ code = ""

\* a first visit: nothing stored, and the storage works
Init == Mounted(NoItem, TRUE)

\* the input is not recorded
Unlogged == UNCHANGED << event, code >>

\* the callbacks of a round explored by every specification but SpecStale:
\* MaxTicks gameTick calls, MaxStale callbacks before a render or its
\* effects
Narrow == ticks' <= MaxTicks /\ stale' <= MaxStale

\* the input is not recorded, the callbacks within MaxTicks and MaxStale
Plain == Unlogged /\ Narrow

Next ==
    \/ PlayGame /\ Plain
    \/ Back /\ Plain
    \/ \E d \in Difficulty : startGame(d) /\ Plain
    \/ resetGame /\ Plain
    \/ resumeGame /\ Plain
    \/ countdownTimer /\ Plain
    \/ gameTick /\ Plain
    \/ \E e \in KeyboardEvents : handleKeyDown(e) /\ Plain
    \/ \E outcome \in FetchOutcomes : FetchSettles(outcome) /\ Plain
    \/ Render /\ Plain
    \/ Effects /\ Plain

Spec == Init /\ [][Next]_vars

\* the input is not recorded, within the SessionTurns direction changes of a
\* round
Straight == Unlogged /\ turns' <= SessionTurns

\* the same program explored for LongTicks ticks and LongStale callbacks
\* before a render or its effects, in rounds of SessionTurns direction
\* changes
NextStale ==
    \/ PlayGame /\ Straight
    \/ Back /\ Straight
    \/ \E d \in Difficulty : startGame(d) /\ Straight
    \/ resetGame /\ Straight
    \/ resumeGame /\ Straight
    \/ countdownTimer /\ Straight
    \/ gameTick /\ Straight
    \/ \E e \in KeyboardEvents : handleKeyDown(e) /\ Straight
    \/ \E outcome \in FetchOutcomes : FetchSettles(outcome) /\ Straight
    \/ Render /\ Straight
    \/ Effects /\ Straight

SpecStale == Init /\ [][NextStale]_vars

\* the ticks of a round explored while the last input is recorded: LogTicks
\* once the snake has turned
LogBudget == IF turns = 0 THEN TickBudget ELSE LogTicks

\* the input is recorded, a tick within the LogBudget ticks of a round
Logged(input) ==
    /\ event' = input
    /\ code' = ""
    /\ ticks' = ticks + 1 => ticks' <= LogBudget
    /\ Narrow

\* the keyboard event is recorded: e.key and e.code
LoggedKey(e) == event' = e.key /\ code' = e.code

\* the same program with the last input recorded in `event`, explored for
\* LogBudget ticks per round
NextLog ==
    \/ PlayGame /\ Logged("PlayGame")
    \/ Back /\ Logged("Back")
    \/ \E d \in Difficulty : startGame(d) /\ Logged(d)
    \/ resetGame /\ Logged("resetGame")
    \/ resumeGame /\ Logged("resumeGame")
    \/ countdownTimer /\ Logged("countdownTimer")
    \/ gameTick /\ Logged("gameTick")
    \/ \E e \in KeyboardEvents : handleKeyDown(e) /\ LoggedKey(e)
    \/ \E outcome \in FetchOutcomes : FetchSettles(outcome) /\ Logged(outcome)
    \/ Render /\ Logged("Render")
    \/ Effects /\ Logged("Effects")

SpecLog == Init /\ [][NextLog]_vars

(* ---------------------------------------------------------------------- *)
(* Sessions                                                                *)
(* ---------------------------------------------------------------------- *)

\* what localStorage can hold under 'snakeHighScore' when App is first
\* mounted: nothing, an empty string, or the digits of an earlier high score
InitialStorage == {NoItem, << >>, << 1 >>, << 1, 2 >>}

\* the page is loaded again: App is mounted anew on what localStorage holds
Reload ==
    /\ snake' = INITIAL_SNAKE_POSITION
    /\ food' = INITIAL_FOOD_POSITION
    /\ direction' = "RIGHT"
    /\ score' = 0
    /\ mounted' = storageAvailable
    /\ highScore' = InitialHighScore(stored)
    /\ gameState' = "HOME"
    /\ difficulty' = "MEDIUM"
    /\ countdown' = "3"
    /\ step' = 0
    /\ isFactLoading' = TRUE
    /\ snakeFact' = ""
    /\ IF storageAvailable
       THEN \E start \in FetchStarts :
              /\ pending' = fetchSnakeFact(start)
              /\ fetchPending' = IF start = "awaits" THEN 1 ELSE 0
       ELSE pending' = NoUpdates /\ fetchPending' = 0
    /\ intervals' = << >>
    /\ timers' = 0
    /\ listener' = KeyClosure(direction', gameState')
    /\ effectDeps' = Dependencies(State)'
    /\ ticks' = 0
    /\ turns' = 0
    /\ stale' = 0
    /\ UNCHANGED << stored, storageAvailable >>

\* a step of the session in progress, within the SessionTurns direction
\* changes of a round
Played == event' = "played" /\ code' = "" /\ turns' <= SessionTurns /\ Narrow

\* the page is loaded again
Reloaded == event' = "reload" /\ code' = ""

InitSession == \E savedItem \in InitialStorage : Mounted(savedItem, TRUE)

\* the program over several sessions of one browser; `event` records
\* whether the last step was a load of the page
NextSession ==
    \/ PlayGame /\ Played
    \/ Back /\ Played
    \/ \E d \in Difficulty : startGame(d) /\ Played
    \/ resetGame /\ Played
    \/ resumeGame /\ Played
    \/ countdownTimer /\ Played
    \/ gameTick /\ Played
    \/ \E e \in KeyboardEvents : handleKeyDown(e) /\ Played
    \/ \E outcome \in FetchOutcomes : FetchSettles(outcome) /\ Played
    \/ Render /\ Played
    \/ Effects /\ Played
    \/ Reload /\ Reloaded

SpecSession == InitSession /\ [][NextSession]_vars

\* the input is recorded, within the SessionTurns direction changes of a round
Recorded(input) ==
    event' = input /\ code' = "" /\ turns' <= SessionTurns /\ Narrow

\* the keyboard event is recorded, within the same bound
RecordedKey(e) == event' = e.key /\ code' = e.code /\ turns' <= SessionTurns

(* ---------------------------------------------------------------------- *)
(* A storage that fails                                                    *)
(* ---------------------------------------------------------------------- *)

\* localStorage stops working (its quota is used up, or access is revoked)
StorageBreaks ==
    /\ mounted
    /\ storageAvailable
    /\ storageAvailable' = FALSE
    /\ UNCHANGED << snake, food, direction, score, highScore, gameState,
                    difficulty, countdown, snakeFact, isFactLoading, step,
                    fetchPending, stored, ticks, turns, intervals, timers,
                    listener, pending, stale, mounted, effectDeps >>

\* localStorage works or not when App is mounted
InitStorage == \E available \in BOOLEAN : Mounted(NoItem, available)

\* the program in a browser whose storage can fail, with the last input
\* recorded in `event`
NextStorage ==
    \/ PlayGame /\ Recorded("PlayGame")
    \/ Back /\ Recorded("Back")
    \/ \E d \in Difficulty : startGame(d) /\ Recorded(d)
    \/ resetGame /\ Recorded("resetGame")
    \/ resumeGame /\ Recorded("resumeGame")
    \/ countdownTimer /\ Recorded("countdownTimer")
    \/ gameTick /\ Recorded("gameTick")
    \/ \E e \in KeyboardEvents : handleKeyDown(e) /\ RecordedKey(e)
    \/ \E outcome \in FetchOutcomes : FetchSettles(outcome) /\ Recorded(outcome)
    \/ Render /\ Recorded("Render")
    \/ Effects /\ Recorded("Effects")
    \/ StorageBreaks /\ Recorded("StorageBreaks")

SpecStorage == InitStorage /\ [][NextStorage]_vars

(* ---------------------------------------------------------------------- *)
(* A perfect game                                                          *)
(* ---------------------------------------------------------------------- *)

\* ticks and direction changes of the round of a perfect game
FillTicks == GRID_SIZE * GRID_SIZE + 2 * GRID_SIZE
FillTurns == 3 * GRID_SIZE

\* the direction of the move from cell p to its neighbour q
DirectionTo(p, q) ==
    IF q.x = p.x + 1 THEN "RIGHT"
    ELSE IF q.x = p.x - 1 THEN "LEFT"
    ELSE IF q.y = p.y + 1 THEN "DOWN"
    ELSE "UP"

\* the route of a snake that covers the grid from the corner (0,0), its
\* first segments lying in column 0 below the corner: row 0 to the right, the
\* rows below in turn to the left and to the right over columns 1 to
\* GRID_SIZE - 1, and column 0 upwards from the last row
NextCell(p) ==
    IF p.x = 0
    THEN IF p.y = 0 THEN Point(1, 0) ELSE Point(0, p.y - 1)
    ELSE IF p.y % 2 = 0
    THEN IF p.x < GRID_SIZE - 1 THEN Point(p.x + 1, p.y) ELSE Point(p.x, p.y + 1)
    ELSE IF p.x > 1 THEN Point(p.x - 1, p.y)
    ELSE IF p.y < GRID_SIZE - 1 THEN Point(1, p.y + 1)
    ELSE Point(0, p.y)

\* the direction the player of the perfect game wants for the next tick:
\* right and down to the first food, left and up to the corner (0,0), where
\* the second food lies, then along the route
PlanDirection(currentSnake) ==
    LET head == currentSnake[1]
    IN  IF Len(currentSnake) = 3
        THEN IF head.y = INITIAL_SNAKE_POSITION[1].y /\ head.x < INITIAL_FOOD_POSITION.x
             THEN "RIGHT" ELSE "DOWN"
        ELSE IF Len(currentSnake) = 4
        THEN IF head.x > 0 THEN "LEFT" ELSE "UP"
        ELSE DirectionTo(head, NextCell(head))

\* the random points of the perfect game: the corner (0,0) for the second
\* food, and from then on the cell next on the route
PlanFood(currentSnake) ==
    IF Len(currentSnake) = 4 THEN Point(0, 0) ELSE NextCell(currentSnake[1])

\* a tick of the perfect game: the player has steered, or has let go of the
\* keys; a random point drawn falls on the route
FillTick ==
    /\ event = "handsOff" \/ direction = PlanDirection(snake)
    /\ gameTickWithin(FillTicks, Grid)
    /\ pending'.food # << >> => pending'.food[1] = PlanFood(pending'.snake[1])
    /\ Unlogged

\* the key the player of the perfect game presses before a tick
FillKey ==
    /\ event # "handsOff"
    /\ Settled
    /\ \E e \in KeyboardEvents :
         /\ handleKeyDownWithin(e, FillTurns)
         /\ direction' # direction
         /\ direction' = PlanDirection(snake)
    /\ Unlogged

\* on the last stretch of the route, in column 0, the player lets go of the
\* keys for good
LetGo ==
    /\ gameState = "PLAYING"
    /\ snake[1].x = 0
    /\ Len(snake) > GRID_SIZE
    /\ event # "handsOff"
    /\ event' = "handsOff"
    /\ UNCHANGED << snake, food, direction, score, highScore, gameState,
                    difficulty, countdown, snakeFact, isFactLoading, step,
                    fetchPending, stored, ticks, turns, intervals, timers,
                    listener, pending, stale, mounted, storageAvailable,
                    effectDeps, code >>

\* the program with a player who steers along the route, and random points
\* that fall on the route: the handlers of a single round on Medium, the
\* fact fetch of its HOME screen failing, and React rendering each timer
\* callback and running the effects before the next one runs
NextFill ==
    \/ PlayGame /\ Unlogged
    \/ startGame("MEDIUM") /\ Unlogged
    \/ Settled /\ countdownTimer /\ Unlogged
    \/ Settled /\ FillTick
    \/ FillKey
    \/ LetGo
    \/ FetchSettles("rejected") /\ Unlogged
    \/ Render /\ Unlogged
    \/ Effects /\ Unlogged

\* the movement interval fires as long as it is active, and React renders
\* what is queued and runs the effects
SpecFill ==
    /\ Init /\ [][NextFill]_vars
    /\ WF_vars(Settled /\ FillTick)
    /\ WF_vars(Render /\ Unlogged)
    /\ WF_vars(Effects /\ Unlogged)

(* ---------------------------------------------------------------------- *)
(* Vocabulary of the properties                                            *)
(* ---------------------------------------------------------------------- *)

\* the unit vector of a direction
DX(dir) == IF dir = "LEFT" THEN -1 ELSE IF dir = "RIGHT" THEN 1 ELSE 0

DY(dir) == IF dir = "UP" THEN -1 ELSE IF dir = "DOWN" THEN 1 ELSE 0

\* the rendered head plus the unit vector of the rendered direction
StepHead ==
    [x |-> snake[1].x + DX(direction), y |-> snake[1].y + DY(direction)]

InsideGrid(p) == p.x \in 0..(GRID_SIZE - 1) /\ p.y \in 0..(GRID_SIZE - 1)

\* a step that is one call of gameTick: only gameTick counts ticks up
TickStep == ticks' = ticks + 1

\* the snake, direction and food of the gameTick that is called: those its
\* movement interval closes over
Ticking == intervals[1]

\* the new head of the tick: the head of its snake plus the unit vector of
\* its direction
TickHead ==
    [x |-> Ticking.snake[1].x + DX(Ticking.direction),
     y |-> Ticking.snake[1].y + DY(Ticking.direction)]

\* a tick that collides with a wall or with the snake it moves
CollidingTick ==
    TickStep /\ (~InsideGrid(TickHead) \/ Occupies(Ticking.snake, TickHead))

\* a tick that does not collide, and one that moves the head onto the food
FreeTick ==
    TickStep /\ InsideGrid(TickHead) /\ ~Occupies(Ticking.snake, TickHead)
EatingTick == FreeTick /\ TickHead = Ticking.food

\* the state React holds: the values of the last render with the updates
\* queued since then applied
Held ==
    [snake |-> Latest(pending.snake, snake),
     food |-> Latest(pending.food, food),
     direction |-> Latest(pending.direction, direction),
     score |-> Latest(pending.score, score) + pending.increments,
     highScore |-> Latest(pending.highScore, highScore),
     gameState |-> Latest(pending.gameState, gameState),
     difficulty |-> Latest(pending.difficulty, difficulty),
     countdown |-> Latest(pending.countdown, countdown),
     snakeFact |-> Latest(pending.snakeFact, snakeFact),
     isFactLoading |-> Latest(pending.isFactLoading, isFactLoading)]

\* a step on which React renders the update of gameState that was queued
GameStateRendered == pending.gameState # << >> /\ pending'.gameState = << >>

\* a step that resets the round: a difficulty button or Play Again
ResetStep ==
    \/ gameState = "IDLE" /\ gameState' = "COUNTDOWN"
    \/ gameState = "GAME_OVER" /\ gameState' = "IDLE"

Opposite(dir) ==
    CASE dir = "UP" -> "DOWN" [] dir = "DOWN" -> "UP"
      [] dir = "LEFT" -> "RIGHT" [] dir = "RIGHT" -> "LEFT"

\* the arrow key that asks for a direction
ArrowKey(dir) ==
    CASE dir = "UP" -> "ArrowUp" [] dir = "DOWN" -> "ArrowDown"
      [] dir = "LEFT" -> "ArrowLeft" [] dir = "RIGHT" -> "ArrowRight"

ArrowKeys == { ArrowKey(d) : d \in Direction }

(* ---------------------------------------------------------------------- *)
(* C1                                                                      *)
(* ---------------------------------------------------------------------- *)

\* C1: every tick taken in PLAYING whose new head (head plus the unit vector
\* of the direction) has x or y outside [0, GRID_SIZE) sets GAME_OVER, and
\* the render of that update shows GAME_OVER.
C1_WallEndsGame ==
    [][/\ (TickStep /\ ~InsideGrid(TickHead)
             => pending'.gameState = << "GAME_OVER" >>)
       /\ (GameStateRendered /\ pending.gameState = << "GAME_OVER" >>
             /\ ~InsideGrid(StepHead)
             => gameState' = "GAME_OVER")]_vars

(* ---------------------------------------------------------------------- *)
(* C2                                                                      *)
(* ---------------------------------------------------------------------- *)

\* C2: a tick taken in PLAYING whose new head is inside the grid sets
\* GAME_OVER exactly when the new head equals a segment of the snake before
\* the move, the last segment (the tail) included, and the render of that
\* update shows GAME_OVER.
C2_SelfCollisionIff ==
    [][/\ (TickStep /\ InsideGrid(TickHead)
             => (pending'.gameState = << "GAME_OVER" >>
                   <=> \E i \in 1..Len(Ticking.snake) :
                         Ticking.snake[i] = TickHead))
       /\ (GameStateRendered /\ pending.gameState = << "GAME_OVER" >>
             /\ InsideGrid(StepHead)
             => gameState' = "GAME_OVER")]_vars

(* ---------------------------------------------------------------------- *)
(* C3                                                                      *)
(* ---------------------------------------------------------------------- *)

\* C3: on every tick that does not collide, the snake the tick sets is one
\* segment longer than the snake it moved if and only if the new head is the
\* food position, and has the same length otherwise; a render changes the
\* length of the snake only to that of the snake set last, one segment
\* longer.
C3_GrowsIffFood ==
    [][/\ FreeTick =>
             /\ pending'.snake # << >>
             /\ Len(Held'.snake) = Len(Ticking.snake) + 1
                  <=> TickHead = Ticking.food
             /\ TickHead # Ticking.food
                  => Len(Held'.snake) = Len(Ticking.snake)
       /\ (Len(snake') # Len(snake) /\ ~ResetStep) =>
             /\ pending.snake # << >>
             /\ snake' = pending.snake[1]
             /\ Len(snake') = Len(snake) + 1]_vars

(* ---------------------------------------------------------------------- *)
(* C4                                                                      *)
(* ---------------------------------------------------------------------- *)

\* C4: in every reachable state, GAME_OVER included, no two segments of the
\* snake occupy the same cell, in the snake rendered and in the snake set
\* by the last tick.
C4_NoDuplicateSegments ==
    /\ \A i, j \in 1..Len(snake) : i # j => snake[i] # snake[j]
    /\ \A i, j \in 1..Len(Held.snake) :
          i # j => Held.snake[i] # Held.snake[j]

\* a snake that has bent twice, after a tick that ended the game
C4_Witness ==
    /\ gameState = "GAME_OVER"
    /\ snake[1].x # snake[2].x
    /\ snake[2].y # snake[3].y

(* ---------------------------------------------------------------------- *)
(* C5                                                                      *)
(* ---------------------------------------------------------------------- *)

\* C5: whenever food is placed, by generateFood on a tick that eats or by a
\* reset (startGame, resetGame) to the initial food position, no segment of the snake of that moment (for
\* generateFood: the snake with its new head) is on the food.
C5_FoodPlacedOnFreeCell ==
    [][/\ EatingTick =>
             /\ pending'.food # << >>
             /\ ~Occupies(<< TickHead >> \o Ticking.snake, Held'.food)
             /\ ~Occupies(Held'.snake, Held'.food)
       /\ ResetStep => ~Occupies(snake', food')]_vars

\* generateFood has placed food: the first food is eaten and the new food
\* lies elsewhere than the initial food position, which the head is on
C5_Witness ==
    /\ score = 1
    /\ snake[1] = INITIAL_FOOD_POSITION
    /\ food # INITIAL_FOOD_POSITION

(* ---------------------------------------------------------------------- *)
(* C6                                                                      *)
(* ---------------------------------------------------------------------- *)

\* C6: an arrow key whose direction is the opposite of the current
\* direction leaves the direction exactly as it was.
C6_OppositeKeyKeepsDirection ==
    [][\A d \in Direction :
          (event' = ArrowKey(d) /\ d = Opposite(Held.direction))
             => /\ direction' = direction
                /\ Held'.direction = Held.direction]_vars

\* ArrowLeft was the last input, received in PLAYING, and the direction is
\* still RIGHT
C6_Witness ==
    /\ event = "ArrowLeft"
    /\ code = "Other"
    /\ gameState = "PLAYING"
    /\ direction = "RIGHT"

(* ---------------------------------------------------------------------- *)
(* C7                                                                      *)
(* ---------------------------------------------------------------------- *)

\* C7: no tick moves the head opposite to the move of the previous tick: the
\* new head a tick computes is never the segment directly behind the head.
C7_NoReversalIntoNeck ==
    [][TickStep => TickHead # Ticking.snake[2]]_vars

(* ---------------------------------------------------------------------- *)
(* C8                                                                      *)
(* ---------------------------------------------------------------------- *)

ListedTransitions ==
    { << "HOME", "IDLE" >>, << "IDLE", "COUNTDOWN" >>,
      << "COUNTDOWN", "PLAYING" >>, << "PLAYING", "PAUSED" >>,
      << "PAUSED", "PLAYING" >>, << "PLAYING", "GAME_OVER" >>,
      << "GAME_OVER", "IDLE" >> }

\* C8: every change of gameState is one of HOME to IDLE, IDLE to
\* COUNTDOWN, COUNTDOWN to PLAYING, PLAYING to PAUSED, PAUSED to PLAYING,
\* PLAYING to GAME_OVER, GAME_OVER to IDLE; the change of IDLE to HOME by the
\* Back button of the difficulty screen, which the list leaves out, is set
\* aside.
C8_ListedTransitionsOrBack ==
    [][gameState' # gameState =>
          << gameState, gameState' >>
             \in ListedTransitions \cup { << "IDLE", "HOME" >> }]_vars

(* ---------------------------------------------------------------------- *)
(* C9                                                                      *)
(* ---------------------------------------------------------------------- *)

\* a step that handles the event of an arrow key, and one that handles an
\* event the handler takes for the space key
ArrowEvent == event' \in ArrowKeys /\ code' # "Space"
SpaceEvent == event' = " " \/ code' = "Space"

\* C9: an arrow key received while gameState is HOME, IDLE, COUNTDOWN,
\* PAUSED or GAME_OVER leaves direction, snake, food, score and gameState
\* unchanged, and queues no update of them.
C9_ArrowsOnlyInPlaying ==
    [][(ArrowEvent /\ gameState # "PLAYING") =>
          /\ UNCHANGED << direction, snake, food, score, gameState >>
          /\ Held' = Held]_vars

(* ---------------------------------------------------------------------- *)
(* C10                                                                     *)
(* ---------------------------------------------------------------------- *)

\* C10: the space key takes PLAYING to PAUSED and PAUSED to PLAYING, changes
\* nothing in HOME, IDLE, COUNTDOWN and GAME_OVER, and in every state leaves
\* snake, food, score and direction as they were set last.
C10_SpaceToggles ==
    [][SpaceEvent =>
          /\ gameState = "PLAYING" => gameState' = "PAUSED"
          /\ gameState = "PAUSED" => gameState' = "PLAYING"
          /\ gameState \notin {"PLAYING", "PAUSED"} =>
                UNCHANGED << snake, food, direction, score, highScore,
                             gameState, difficulty, countdown, snakeFact,
                             isFactLoading, step, fetchPending, stored,
                             intervals, timers, listener, pending, mounted >>
          /\ Held'.snake = Held.snake
          /\ Held'.food = Held.food
          /\ Held'.score = Held.score
          /\ Held'.direction = Held.direction]_vars

(* ---------------------------------------------------------------------- *)
(* C11 .. C20                                                              *)
(* ---------------------------------------------------------------------- *)

\* a step on which a countdown interval fires
CountdownStep == step' = step + 1

\* C11: never more than one movement interval or countdown interval is
\* active; once the effects of a render have run, a movement interval is
\* active in PLAYING only, and a countdown interval is active in COUNTDOWN
\* only; a tick that fires while the game state rendered or set last is not
\* PLAYING, and a step that stays in a state other than PLAYING, change none
\* of snake, food and score; a countdown step is taken in COUNTDOWN only.
C11_TimersFollowGameState ==
    /\ [](/\ Len(intervals) <= 1
          /\ timers <= 1
          /\ (Len(intervals) > 0 /\ EffectsRun => gameState = "PLAYING")
          /\ (timers > 0 => /\ gameState = "COUNTDOWN"
                            /\ Held.gameState = "COUNTDOWN"))
    /\ [][/\ (ticks' = ticks + 1 => Len(intervals) = 1)
          /\ (ticks' = ticks + 1
                /\ (gameState # "PLAYING" \/ Held.gameState # "PLAYING")
                => /\ Held'.snake = Held.snake
                   /\ Held'.food = Held.food
                   /\ Held'.score = Held.score)
          /\ (CountdownStep
                => /\ gameState = "COUNTDOWN" /\ timers = 1
                   /\ Held.gameState = "COUNTDOWN")
          /\ (gameState # "PLAYING" /\ gameState' = gameState
                => /\ UNCHANGED << snake, food, score >>
                   /\ Held'.snake = Held.snake
                   /\ Held'.food = Held.food
                   /\ Held'.score = Held.score)]_vars

\* the movement interval has fired again after GAME_OVER was rendered and
\* before its cleanup has run
C11_Witness ==
    /\ gameState = "GAME_OVER"
    /\ Len(intervals) = 1
    /\ pending.gameState = << "GAME_OVER" >>
    /\ timers = 0

\* C12: a difficulty button pressed in IDLE leads to COUNTDOWN with the snake
\* at its initial three segments, the food at its initial position, direction
\* RIGHT, score 0 and the selected difficulty stored, whatever these were
\* before; nothing else leads from IDLE to COUNTDOWN.
C12_StartGameResets ==
    [][/\ (event' \in Difficulty
             => /\ gameState = "IDLE" /\ gameState' = "COUNTDOWN"
                /\ difficulty' = event')
       /\ (gameState = "IDLE" /\ gameState' = "COUNTDOWN"
             => /\ event' \in Difficulty
                /\ snake' = INITIAL_SNAKE_POSITION
                /\ Len(snake') = 3
                /\ food' = INITIAL_FOOD_POSITION
                /\ direction' = "RIGHT"
                /\ score' = 0
                /\ Held'.snake = snake'
                /\ Held'.food = food'
                /\ Held'.score = 0)]_vars

\* Hard was selected for a round, after the default Medium
C12_Witness ==
    /\ event = "HARD"
    /\ gameState = "COUNTDOWN"
    /\ difficulty = "HARD"
    /\ snake = INITIAL_SNAKE_POSITION
    /\ score = 0

\* C13: COUNTDOWN is entered showing "3"; the value shown goes through "3",
\* "2", "1", "Go!" in that order, one value for each firing of the countdown
\* interval, and the fourth firing after the entry, not an earlier one, sets
\* PLAYING; COUNTDOWN is left by a firing of the countdown interval only.
C13_CountdownSequence ==
    /\ [](Held.gameState = "COUNTDOWN"
            => step \in 0..3 /\ Held.countdown = sequence[step + 1])
    /\ [][/\ (gameState # "COUNTDOWN" /\ gameState' = "COUNTDOWN"
                => countdown' = "3" /\ step' = 0)
          /\ (CountdownStep
                => /\ (step < 3 => /\ Held'.gameState = "COUNTDOWN"
                                   /\ Held'.countdown = sequence[step + 2])
                   /\ (step = 3 => Held'.gameState = "PLAYING"))
          /\ (gameState = "COUNTDOWN" /\ gameState' = "COUNTDOWN"
                /\ countdown' # countdown
                => << countdown, countdown' >> \in
                      {<< "3", "2" >>, << "2", "1" >>, << "1", "Go!" >>})
          /\ (gameState = "COUNTDOWN" /\ gameState' # "COUNTDOWN"
                => /\ gameState' = "PLAYING"
                   /\ step = 4
                   /\ countdown = "Go!")]_vars

\* C14: score is a natural number in every reachable state; a tick whose head
\* lands on the food adds 1 to it, every other tick and every key event leave
\* it unchanged, and it is set to 0 by a reset only.
C14_ScoreCountsFood ==
    /\ [](score \in Nat /\ Held.score \in Nat)
    /\ [][/\ (EatingTick => Held'.score = Held.score + 1)
          /\ (TickStep /\ ~EatingTick => Held'.score = Held.score)
          /\ (Held'.score # Held.score
                => \/ EatingTick /\ Held'.score = Held.score + 1
                   \/ ResetStep /\ Held'.score = 0)
          /\ (score' # score
                => \/ score' = Held.score /\ score' > score
                   \/ ResetStep /\ score' = 0)]_vars

\* the food was eaten in a round and the score of 1 is rendered
C14_Witness ==
    /\ score = 1
    /\ Len(snake) = 4
    /\ snake[1] = INITIAL_FOOD_POSITION
    /\ gameState = "PLAYING"

\* the high score a later session reads from localStorage
Persisted == InitialHighScore(stored)

\* C15: the high score is set and written to localStorage only with a
\* rendered score that exceeds the rendered high score, both with that
\* score, and they are once the effects of a render with such a score have
\* run; the high score rendered changes to the value set only; over every
\* step, a reset, a game over and a reload included, neither the high score
\* in memory nor the persisted one decreases.
C15_HighScoreMonotone ==
    /\ [](EffectsRun /\ score > highScore
            => Held.highScore = score /\ Persisted = score)
    /\ [][/\ ((stored' # stored \/ Held'.highScore # Held.highScore)
                /\ event' # "reload"
                => \E s \in {score, score'} :
                      /\ s > highScore
                      /\ Held'.highScore = s
                      /\ stored' # NoItem
                      /\ parseInt(stored') = s)
          /\ (highScore' # highScore /\ event' # "reload"
                => highScore' \in {Held.highScore, score})
          /\ highScore' >= highScore
          /\ Held'.highScore >= Held.highScore
          /\ Persisted' >= Persisted]_vars

\* the page was loaded again after a high score of 2 was written
C15_Witness ==
    /\ event = "reload"
    /\ highScore = 2
    /\ stored = << 2 >>
    /\ score = 0
    /\ gameState = "HOME"

\* C16: the step from GAME_OVER to IDLE sets the snake, the food and the
\* direction to their initial values and the score to 0; the step that
\* enters GAME_OVER and every step taken in GAME_OVER until then keep the
\* score.
C16_PlayAgainResets ==
    [][/\ (gameState = "GAME_OVER" /\ gameState' = "IDLE"
             => /\ snake' = INITIAL_SNAKE_POSITION
                /\ food' = INITIAL_FOOD_POSITION
                /\ direction' = "RIGHT"
                /\ score' = 0
                /\ Held'.score = 0)
       /\ (gameState' = "GAME_OVER"
             => score' = score /\ Held'.score = score')]_vars

\* Play Again was pressed after a round that ended with the direction
\* turned away from RIGHT
C16_Witness ==
    /\ gameState = "IDLE"
    /\ turns = 1
    /\ ticks > 0
    /\ score = 0
    /\ snake = INITIAL_SNAKE_POSITION
    /\ food = INITIAL_FOOD_POSITION
    /\ direction = "RIGHT"
    /\ countdown = "Go!"

\* C17: HOME is left for IDLE only when no fact fetch is in flight; on every
\* entry to HOME, the first and every later one, the play action is disabled
\* for as long as the fetch started for that entry is in flight, and at most
\* one fetch is in flight.
C17_PlayWaitsForFetch ==
    /\ [](/\ fetchPending \in 0..1
          /\ (fetchPending > 0 => gameState = "HOME" /\ isFactLoading))
    /\ [][gameState = "HOME" /\ gameState' # "HOME"
             => gameState' = "IDLE" /\ fetchPending = 0 /\ ~isFactLoading]_vars

\* C18: when the fetch settles the loading is set to end, whether it
\* resolved or rejected, and the render that follows enables the play
\* action; a rejected fetch, and one that fails before its request, sets
\* the fact to the fixed fallback string; the outcome of the fetch changes
\* none of snake, food, score, direction and gameState.
C18_FetchFailureFallsBack ==
    [][/\ (event' \in FetchOutcomes
             => /\ ~Held'.isFactLoading
                /\ mounted'
                /\ UNCHANGED << snake, food, score, direction, gameState >>
                /\ Held'.snake = Held.snake
                /\ Held'.food = Held.food
                /\ Held'.score = Held.score
                /\ Held'.gameState = Held.gameState)
       /\ (event' = "rejected" => Held'.snakeFact = FALLBACK_FACT)
       /\ (event' = "resolved" => Held'.snakeFact \in ResponseTexts)
       /\ (event' = "Back" /\ fetchPending' = fetchPending
             => Held'.snakeFact = FALLBACK_FACT /\ ~Held'.isFactLoading)
       /\ (event' = "Render"
             => /\ isFactLoading' = Held.isFactLoading
                /\ snakeFact' = Held.snakeFact)]_vars

\* a fetch was rejected: the fallback is shown and the loading has ended
C18_Witness ==
    /\ event = "Render"
    /\ gameState = "HOME"
    /\ snakeFact = FALLBACK_FACT
    /\ ~isFactLoading
    /\ fetchPending = 0
    /\ ticks = 0

\* C19: a failure of localStorage, on the read at startup or on a write, is
\* not fatal: App stays mounted in every reachable state, so that the game
\* goes on with the high score it holds in memory.
C19_StorageFailureNonFatal == mounted

\* C20: in every reachable state, GAME_OVER after a wall collision included,
\* every segment of the snake and the food are points of the grid:
\* 0 <= x < GRID_SIZE and 0 <= y < GRID_SIZE.
C20_PointsInsideGrid ==
    /\ \A i \in 1..Len(snake) : InsideGrid(snake[i])
    /\ InsideGrid(food)
    /\ \A i \in 1..Len(Held.snake) : InsideGrid(Held.snake[i])
    /\ InsideGrid(Held.food)

\* the game is over after the head, in the last column, moved right
C20_Witness ==
    /\ gameState = "GAME_OVER"
    /\ snake[1].x = GRID_SIZE - 1
    /\ direction = "RIGHT"
    /\ WallCollision(MoveHead(snake[1], direction))

(* ---------------------------------------------------------------------- *)
(* C21 .. C30                                                              *)
(* ---------------------------------------------------------------------- *)

\* the next tick moves the head onto the food, and calls generateFood
WillEat ==
    /\ gameState = "PLAYING"
    /\ ~WallCollision(MoveHead(snake[1], direction))
    /\ ~SelfCollision(snake, MoveHead(snake[1], direction))
    /\ FoodCollision(MoveHead(snake[1], direction), food)

\* C21: whenever generateFood is about to be called, on the snake grown onto
\* the food, some cell of the grid is not occupied by that snake, so that the
\* rejection loop can return a position.
C21_FoodPlacementTerminates ==
    WillEat => generateFood(Grid, << MoveHead(snake[1], direction) >> \o snake) # {}

\* C22: on every tick that does not collide, the new head is the old head
\* moved by the unit vector of the direction (UP: y-1, DOWN: y+1, LEFT: x-1,
\* RIGHT: x+1) and segment i of the new snake is segment i-1 of the old one;
\* so after N ticks of a round in which the direction never changed, the head
\* is the initial head moved N cells to the right.
C22_HeadMovesByUnitVector ==
    /\ [][FreeTick
            => /\ Held'.snake[1].x = Ticking.snake[1].x + DX(Ticking.direction)
               /\ Held'.snake[1].y = Ticking.snake[1].y + DY(Ticking.direction)
               /\ \A i \in 2..Len(Held'.snake) :
                     Held'.snake[i] = Ticking.snake[i - 1]]_vars
    /\ [](Held.gameState \in {"PLAYING", "PAUSED"} /\ turns = 0
            => /\ Held.snake[1].x = INITIAL_SNAKE_POSITION[1].x + ticks
               /\ Held.snake[1].y = INITIAL_SNAKE_POSITION[1].y)

\* C23: every handler acts on the state set last: an arrow key and the
\* space key are judged against the direction and the gameState set last,
\* and a tick moves the head of the snake set last in the direction last
\* accepted and compares it with the food set last.
C23_HandlersSeeLatestState ==
    [][/\ (event' \in Keys
             => listener = KeyClosure(Held.direction, Held.gameState))
       /\ (event' = "gameTick"
             => \A id \in 1..Len(intervals) :
                   intervals[id] =
                      Closure(Held.snake, Held.direction, Held.food))]_vars

\* C24: a tick that ends in a wall or self collision sets gameState and
\* nothing of snake, food, score and direction; the render that enters
\* GAME_OVER keeps snake, food and score: the snake of GAME_OVER is the snake
\* before the move.
C24_CollisionTickFrame ==
    [][/\ (CollidingTick
             => /\ pending' = [pending EXCEPT !.gameState = << "GAME_OVER" >>]
                /\ UNCHANGED << snake, food, score, direction >>)
       /\ (gameState # "GAME_OVER" /\ gameState' = "GAME_OVER"
             => UNCHANGED << snake, food, score >>)]_vars

\* the game is over after the head, in the first row, moved up; the snake
\* still lies in the grid
C24_Witness ==
    /\ gameState = "GAME_OVER"
    /\ direction = "UP"
    /\ snake[1].y = 0
    /\ snake[2].y = 1
    /\ score = 0

\* C25: in every reachable state no segment of the snake is on the food: a
\* tick moves the head onto the food and replaces the food, or moves it onto
\* another cell.
C25_FoodNeverOnSnake ==
    /\ ~Occupies(snake, food)
    /\ ~Occupies(Held.snake, Held.food)

\* C26: in every reachable state the score is the length of the snake minus
\* 3, the length of the initial snake.
C26_ScoreIsGrowth == score = Len(snake) - Len(INITIAL_SNAKE_POSITION)

\* C27: in every reachable state the snake has at least 3 segments, and each
\* two consecutive segments differ by exactly 1 in exactly one coordinate.
C27_SnakeIsConnectedPath ==
    /\ Len(snake) >= 3
    /\ \A i \in 1..(Len(snake) - 1) : Distance(snake[i], snake[i + 1]) = 1
    /\ Len(Held.snake) >= 3
    /\ \A i \in 1..(Len(Held.snake) - 1) :
          Distance(Held.snake[i], Held.snake[i + 1]) = 1

\* a snake of 4 segments with a bend
C27_Witness ==
    /\ Len(snake) = 4
    /\ snake[1].x # snake[4].x
    /\ snake[1].y # snake[4].y

\* C28: the step from PLAYING to PAUSED is taken by the space key and keeps
\* snake, food, score, direction and difficulty as they were set last; every
\* step taken in PAUSED leaves them as they were, and PAUSED is left by the
\* space key or the Resume button only, for PLAYING with one movement
\* interval on that same state and no countdown.
C28_PauseResumeRoundTrip ==
    [][/\ (gameState = "PLAYING" /\ gameState' = "PAUSED"
             => /\ SpaceEvent
                /\ snake' = Held.snake
                /\ food' = Held.food
                /\ score' = Held.score
                /\ direction' = Held.direction
                /\ difficulty' = Held.difficulty)
       /\ (gameState = "PAUSED"
             => /\ UNCHANGED << snake, food, score, direction, difficulty,
                                countdown, step, ticks >>
                /\ Held.snake = snake /\ Held.food = food
                /\ Held.score = score /\ Held.direction = direction
                /\ gameState' \in {"PAUSED", "PLAYING"}
                /\ (gameState' = "PLAYING"
                      <=> SpaceEvent \/ event' = "resumeGame")
                /\ (gameState' = "PLAYING"
                      => /\ timers' = 0
                         /\ intervals' = << Closure(snake, direction, food) >>))
      ]_vars

\* the Resume button was pressed on a round paused after a turn and a tick
C28_Witness ==
    /\ event = "resumeGame"
    /\ gameState = "PLAYING"
    /\ direction = "DOWN"
    /\ snake[1] = Point(10, 11)

\* C29: a round starts from one configuration: throughout COUNTDOWN, and so
\* at its transition to PLAYING, the snake is the initial snake
\* [(10,10),(9,10),(8,10)], the direction is RIGHT, the score is 0 and the
\* food is at (15,15); no key and no timer changes them in COUNTDOWN.
C29_RoundStartsFromInitial ==
    /\ [](gameState = "COUNTDOWN"
            => /\ snake = << Point(10, 10), Point(9, 10), Point(8, 10) >>
               /\ direction = "RIGHT"
               /\ score = 0
               /\ food = Point(15, 15)
               /\ Held.snake = snake /\ Held.direction = direction
               /\ Held.score = score /\ Held.food = food)
    /\ [][gameState = "COUNTDOWN"
            => /\ UNCHANGED << snake, direction, score, food >>
               /\ gameState' \in {"COUNTDOWN", "PLAYING"}]_vars

\* a round on Hard begins: the fourth firing of the countdown interval is
\* rendered and the movement interval is set on the initial configuration
C29_Witness ==
    /\ gameState = "PLAYING"
    /\ ticks = 0
    /\ step = 4
    /\ difficulty = "HARD"
    /\ score = 0
    /\ snake = INITIAL_SNAKE_POSITION
    /\ food = INITIAL_FOOD_POSITION
    /\ Len(intervals) = 1

\* C30: when the movement interval fires fairly, a round in PLAYING whose
\* player presses no further key reaches GAME_OVER.
C30_HandsOffReachesGameOver ==
    (gameState = "PLAYING" /\ event = "handsOff") ~> gameState = "GAME_OVER"


====

